---- MODULE Spec2Model ----
(***************************************************************************)
(* A model of airflow/configuration.py: the AirflowConfigParser resolver   *)
(* (get and its tiers, the typed accessors, has_option, remove_option,     *)
(* getsection, as_dict), the loads (read, read_dict) with _validate, and   *)
(* the process environment os.environ the resolver reads and mutates.      *)
(*                                                                         *)
(* Strings are TLA+ strings and are worked on character by character, as   *)
(* the code does (upper, lower, strip, split, substring search, variable   *)
(* expansion).  Python values are records [t, s]: a str, None or _UNSET.   *)
(* No value of the model's universe contains '%', so the parser's          *)
(* BasicInterpolation (a library, not this file) returns values as stored. *)
(***************************************************************************)
EXTENDS Integers, Sequences, FiniteSets, TLC

VARIABLES
  environ,       \* os.environ: variable name -> value
  sections,      \* self._sections: the file-backed store, section -> key -> value
  defaults,      \* self.airflow_defaults._sections: the default table
  is_validated,  \* self.is_validated
  nloads,        \* number of loads (read, read_dict) done on this instance
  ret            \* what the last operation returned, raised and did

vars == <<environ, sections, defaults, is_validated, nloads, ret>>

----------------------------------------------------------------------------
(* Bounds of the model *)

\* loads (read / read_dict) per resolver instance
MaxLoads == 2

\* AIRFLOW__* variables set in the environment at the same time
MaxEnvVars == 2

\* length of the strings getboolean is tried on in SpecBool
MaxBoolLen == 3

----------------------------------------------------------------------------
(* The inputs the model draws from.  The same resolver is driven by four   *)
(* families of inputs, one per specification: SpecResolve (the tiers of    *)
(* get around a renamed, sensitive setting), SpecValidate (loads and       *)
(* _validate), Spec (settings with command and secret hints, every         *)
(* accessor, the export and its reload) and SpecBool (getboolean's parse). *)

\* variables of the process environment that are not settings
BaseEnviron ==
  [ n \in {"HOME", "KIND", "FLAVOR"} |->
      CASE n = "HOME" -> "/home/af"
        [] n = "KIND" -> "${FLAVOR}Executor"
        [] n = "FLAVOR" -> "Celery" ]

\* default_config templates a resolver is constructed with (keys lower-cased by
\* the plain ConfigParser that holds them)
CoreDefaults ==
  [ executor |-> "SequentialExecutor",
    sql_alchemy_conn |-> "sqlite:///~/airflow.db",
    task_runner |-> "StandardTaskRunner",
    dags_folder |-> "~/dags",
    parallelism |-> "32" ]

WebserverDefaults ==
  [ authenticate |-> "False",
    owner_mode |-> "user",
    auth_backend |-> "airflow.api.auth.backend.default" ]

\* the shipped template: the new name of the renamed setting
NewDefaults ==
  [ core |-> CoreDefaults, webserver |-> WebserverDefaults,
    celery |-> [ broker_url |-> "amqp://default" ] ]

\* a template that still has the old name only
OldDefaults ==
  [ core |-> CoreDefaults, webserver |-> WebserverDefaults,
    celery |-> [ celery_broker_url |-> "amqp://olddefault" ] ]

DefaultConfigs == {NewDefaults, OldDefaults}

\* a dictionary of one setting
Setting(section, key, value) == [s \in {section} |-> [k \in {key} |-> value]]

\* SpecResolve: what read_dict is given, what the environment is given (names
\* are upper-case, as the resolver builds them), what get is asked
ResolveDicts ==
  { Setting("celery", "broker_url", "amqp://file"),
    Setting("celery", "celery_broker_url", "amqp://oldfile"),
    Setting("celery", "broker_url_cmd", "printf amqp://cmd"),
    Setting("celery", "broker_url_secret", "vault/broker") }

ResolveEnv ==
  { <<"AIRFLOW__CELERY__BROKER_URL", "amqp://${FLAVOR}">>,
    <<"AIRFLOW__CELERY__BROKER_URL_CMD", "printf amqp://envcmd">>,
    <<"AIRFLOW__CELERY__BROKER_URL_SECRET", "vault/missing">>,
    <<"AIRFLOW__CELERY__CELERY_BROKER_URL", "amqp://oldenv">> }

ResolveArgs == { <<"celery", "broker_url">>, <<"CELERY", "Broker_URL">> }

\* SpecValidate: the contents of the files read() is given (<< >> is a file that
\* does not exist), the dictionaries read_dict() is given, the environment
ValidateFiles ==
  { << >>,
    [ core |-> [ executor |-> "LocalExecutor", sql_alchemy_conn |-> "mysql://db" ],
      webserver |-> [ authenticate |-> "True  # on", owner_mode |-> "ldapgroup",
                      auth_backend |-> "airflow.contrib.auth.backends.ldap_auth" ] ],
    [ core |-> [ executor |-> "LocalExecutor", mp_start_method |-> "bogus" ],
      webserver |-> [ authenticate |-> "True", owner_mode |-> "bogus" ] ] }

ValidateDicts ==
  { Setting("core", "executor", "LocalExecutor"),
    Setting("core", "task_runner", "BashTaskRunner"),
    Setting("core", "mp_start_method", "bogus"),
    Setting("webserver", "authenticate", "True"),
    Setting("webserver", "owner_mode", "ldapgroup") }

ValidateEnv ==
  { <<"AIRFLOW__CORE__TASK_RUNNER", "BashTaskRunner">>,
    <<"AIRFLOW__CORE__TASK_RUNNER", "StandardTaskRunner">>,
    <<"AIRFLOW__CORE__EXECUTOR", "${KIND}">> }

ValidateArgs == { <<"core", "task_runner">> }

\* Spec: hints for a setting that is not sensitive (core.executor) and for one
\* that is (celery.broker_url)
ExportFiles ==
  { [ core |-> [ executor_cmd |-> "printf x", executor_secret |-> "vault/broker" ] ],
    [ celery |-> [ broker_url |-> "amqp://file", broker_url_cmd |-> "printf amqp://cmd",
                   result_backend_secret |-> "vault/broker" ] ] }

ExportDicts ==
  { Setting("celery", "broker_url_cmd", "printf amqp://cmd"),
    Setting("celery", "celery_broker_url", "amqp://oldfile") }

ExportEnv ==
  { <<"AIRFLOW__CORE__EXECUTOR_CMD", "printf x">>,
    <<"AIRFLOW__CORE__EXECUTOR_SECRET", "vault/broker">>,
    <<"AIRFLOW__CELERY__BROKER_URL_CMD", "printf amqp://envcmd">> }

ExportArgs == { <<"core", "executor">>, <<"celery", "broker_url">> }

\* SpecExport: files whose hints as_dict follows (a command and a secret for
\* one setting, a command that prints nothing), a section the default table
\* does not have, and variables as_dict layers in
SnapshotFiles ==
  { [ celery |-> [ broker_url |-> "amqp://file", broker_url_cmd |-> "printf amqp://cmd" ] ],
    [ celery |-> [ broker_url_cmd |-> "printf amqp://cmd",
                   broker_url_secret |-> "vault/broker" ] ],
    [ smtp |-> [ smtp_host |-> "localhost" ],
      celery |-> [ result_backend_cmd |-> "true" ] ] }

SnapshotEnv ==
  { <<"AIRFLOW__CORE__UNIT_TEST_MODE", "True">>,
    <<"AIRFLOW__CELERY__BROKER_URL", "amqp://${FLAVOR}">>,
    <<"AIRFLOW__CELERY__BROKER_URL_CMD", "printf amqp://envcmd">> }

SnapshotSections == {"celery", "smtp", "atlas"}

\* SpecCase: dictionaries whose section or key is written with upper-case
\* letters, and the spellings get is asked with
CaseDicts ==
  { Setting("smtp", "smtp_host", "localhost"),
    Setting("smtp", "SMTP_Host", "mail.example.com"),
    Setting("SMTP", "smtp_host", "mx.example.com"),
    Setting("celery", "Broker_URL", "amqp://mixed"),
    Setting("celery", "broker_url", "amqp://file") }

CaseArgs ==
  { <<"smtp", "smtp_host">>, <<"smtp", "SMTP_Host">>, <<"SMTP", "smtp_host">>,
    <<"celery", "Broker_URL">> }

AllDicts ==
  ResolveDicts \cup ValidateFiles \cup ValidateDicts \cup ExportFiles \cup ExportDicts
  \cup SnapshotFiles \cup CaseDicts
AllEnv == ResolveEnv \cup ValidateEnv \cup ExportEnv \cup SnapshotEnv
AllArgs == ResolveArgs \cup ValidateArgs \cup ExportArgs \cup CaseArgs

----------------------------------------------------------------------------
(* A local variable: Let(e, LAMBDA x : body) is body with x bound to the   *)
(* value of e, which is computed once.                                     *)

Let(x, F(_)) == F(x)

----------------------------------------------------------------------------
(* Python strings *)

LowerAlpha == "abcdefghijklmnopqrstuvwxyz"
UpperAlpha == "ABCDEFGHIJKLMNOPQRSTUVWXYZ"
Digits == "0123456789"

CharAt(s, i) == SubSeq(s, i, i)

CharsOf(s) == {CharAt(s, i) : i \in 1..Len(s)}

LowerSet == CharsOf(LowerAlpha)
UpperSet == CharsOf(UpperAlpha)
DigitSet == CharsOf(Digits)

\* the letter of alphabet `to` at the place c has in alphabet `from`
Translate(from, to, c) == CharAt(to, CHOOSE i \in 1..Len(from) : CharAt(from, i) = c)

ToLower == [c \in UpperSet |-> Translate(UpperAlpha, LowerAlpha, c)]
ToUpper == [c \in LowerSet |-> Translate(LowerAlpha, UpperAlpha, c)]

LowerChar(c) == IF c \in UpperSet THEN ToLower[c] ELSE c

UpperChar(c) == IF c \in LowerSet THEN ToUpper[c] ELSE c

RECURSIVE LowerOf(_)
LowerOf(s) == IF s = "" THEN "" ELSE LowerChar(Head(s)) \o LowerOf(Tail(s))

RECURSIVE UpperOf(_)
UpperOf(s) == IF s = "" THEN "" ELSE UpperChar(Head(s)) \o UpperOf(Tail(s))

\* the strings of the model's inputs, whose conversions are computed once
StoreStrings(store) ==
  DOMAIN store
  \cup UNION {DOMAIN store[s] : s \in DOMAIN store}
  \cup UNION {{store[s][k] : k \in DOMAIN store[s]} : s \in DOMAIN store}

KnownStrings ==
  UNION {StoreStrings(d) : d \in DefaultConfigs \cup AllDicts}
  \cup {a[1] : a \in AllArgs} \cup {a[2] : a \in AllArgs}
  \cup {e[2] : e \in AllEnv}

LowerCache == [s \in KnownStrings |-> LowerOf(s)]
UpperCache == [s \in KnownStrings \cup {LowerOf(k) : k \in KnownStrings} |-> UpperOf(s)]

\* str.lower()
StrLower(s) == IF s \in DOMAIN LowerCache THEN LowerCache[s] ELSE LowerOf(s)

\* str.upper()
StrUpper(s) == IF s \in DOMAIN UpperCache THEN UpperCache[s] ELSE UpperOf(s)

StartsWith(s, p) == Len(p) <= Len(s) /\ SubSeq(s, 1, Len(p)) = p

EndsWith(s, p) == Len(p) <= Len(s) /\ SubSeq(s, Len(s) - Len(p) + 1, Len(s)) = p

\* p in s
Contains(s, p) == \E i \in 1..(Len(s) - Len(p) + 1) : SubSeq(s, i, i + Len(p) - 1) = p

\* first position (1-based) at which p occurs in s at or after position from, 0 if none
Find(s, p, from) ==
  LET hits == {i \in from..(Len(s) - Len(p) + 1) : SubSeq(s, i, i + Len(p) - 1) = p}
  IN IF hits = {} THEN 0 ELSE CHOOSE i \in hits : \A j \in hits : i <= j

IsSpace(c) == c \in {" ", "\t", "\n", "\r"}

RECURSIVE LStrip(_)
LStrip(s) == IF s # "" /\ IsSpace(Head(s)) THEN LStrip(Tail(s)) ELSE s

RECURSIVE RStrip(_)
RStrip(s) ==
  IF s # "" /\ IsSpace(CharAt(s, Len(s))) THEN RStrip(SubSeq(s, 1, Len(s) - 1)) ELSE s

\* str.strip()
Strip(s) == RStrip(LStrip(s))

\* s.split(sep)[0]
SplitFirst(s, sep) ==
  LET i == Find(s, sep, 1) IN IF i = 0 THEN s ELSE SubSeq(s, 1, i - 1)

IsDigits(s) == s # "" /\ \A i \in 1..Len(s) : CharAt(s, i) \in DigitSet

Unsigned(s) == IF s # "" /\ Head(s) \in {"+", "-"} THEN Tail(s) ELSE s

\* int(val) succeeds (a sign and decimal digits, blanks around)
IsInt(s) == IsDigits(Unsigned(Strip(s)))

\* float(val) succeeds (digits with one point, or inf / nan; no exponent forms)
IsFloat(s) ==
  LET u == Unsigned(Strip(s))
      dot == Find(u, ".", 1)
      whole == SubSeq(u, 1, dot - 1)
      frac == SubSeq(u, dot + 1, Len(u))
  IN \/ IsDigits(u)
     \/ StrLower(u) \in {"inf", "infinity", "nan"}
     \/ /\ dot # 0
        /\ whole \o frac # ""
        /\ whole = "" \/ IsDigits(whole)
        /\ frac = "" \/ IsDigits(frac)

----------------------------------------------------------------------------
(* Python values and call results *)

Str(s) == [t |-> "str", s |-> s]
None == [t |-> "None", s |-> ""]
UNSET == [t |-> "_UNSET", s |-> ""]
Bool(b) == [t |-> "bool", s |-> IF b THEN "True" ELSE "False"]

NoEffects == [warns |-> << >>, cmds |-> {}, secrets |-> {}, logs |-> << >>]

\* a call that returned v
Return(v) == [exc |-> "", val |-> v, eff |-> NoEffects]

\* a call that raised e
Raise(e) == [exc |-> e, val |-> None, eff |-> NoEffects]

Raised(r) == r.exc # ""

JoinEffects(a, b) ==
  [warns |-> a.warns \o b.warns, cmds |-> a.cmds \cup b.cmds,
   secrets |-> a.secrets \cup b.secrets, logs |-> a.logs \o b.logs]

\* the result r of a later call, with what the earlier call e did before it
After(e, r) == [r EXCEPT !.eff = JoinEffects(e.eff, r.eff)]

\* bool(v) of a str or None
Truthy(v) == v.t = "str" /\ v.s # ""

----------------------------------------------------------------------------
(* Static tables of AirflowConfigParser *)

sensitive_config_values ==
  { <<"core", "sql_alchemy_conn">>,
    <<"core", "fernet_key">>,
    <<"celery", "broker_url">>,
    <<"celery", "flower_basic_auth">>,
    <<"celery", "result_backend">>,
    <<"celery", "celery_result_backend">>,
    <<"atlas", "password">>,
    <<"smtp", "smtp_password">>,
    <<"ldap", "bind_password">>,
    <<"kubernetes", "git_password">> }

\* section -> new_name -> old_name
deprecated_options ==
  [ celery |->
      [ worker_concurrency |-> "celeryd_concurrency",
        result_backend |-> "celery_result_backend",
        broker_url |-> "celery_broker_url",
        ssl_active |-> "celery_ssl_active",
        ssl_cert |-> "celery_ssl_cert",
        ssl_key |-> "celery_ssl_key" ],
    elasticsearch |->
      [ host |-> "elasticsearch_host",
        log_id_template |-> "elasticsearch_log_id_template",
        end_of_log_mark |-> "elasticsearch_end_of_log_mark",
        frontend |-> "elasticsearch_frontend",
        write_stdout |-> "elasticsearch_write_stdout",
        json_format |-> "elasticsearch_json_format",
        json_fields |-> "elasticsearch_json_fields" ] ]

\* section -> setting -> (old, replace, by_version)
deprecated_values ==
  [ core |-> [ task_runner |-> <<"BashTaskRunner", "StandardTaskRunner", "2.0">> ] ]

\* self.deprecated_options.get(section, {}).get(key, None); "" stands for None
DeprecatedName(section, key) ==
  IF section \in DOMAIN deprecated_options /\ key \in DOMAIN deprecated_options[section]
  THEN deprecated_options[section][key]
  ELSE ""

----------------------------------------------------------------------------
(* What the resolver calls outside the process *)

\* the programs a command line can start: exit status and standard output
Programs ==
  [ c \in {"printf amqp://cmd", "printf amqp://envcmd", "printf x", "true", "false"} |->
      CASE c = "printf amqp://cmd" -> [rc |-> 0, out |-> "amqp://cmd"]
        [] c = "printf amqp://envcmd" -> [rc |-> 0, out |-> "amqp://envcmd"]
        [] c = "printf x" -> [rc |-> 0, out |-> "x"]
        [] c = "true" -> [rc |-> 0, out |-> ""]
        [] c = "false" -> [rc |-> 1, out |-> ""] ]

\* what the custom secrets backend holds: secrets_client.get_config(path)
SecretStore ==
  [ p \in {"vault/broker", "vault/missing"} |->
      IF p = "vault/broker" THEN Str("amqp://secret") ELSE None ]

\* the home directory the password database gives for the current user
PwdHome == "/home/airflow"

\* run_command(command) on behalf of the setting (section, key)
run_command(section, key, command) ==
  LET p == Programs[command]
      ran == [NoEffects EXCEPT !.cmds = {<<section, key, command>>}]
  IN IF p.rc # 0
     THEN [Raise("AirflowConfigException: Cannot execute") EXCEPT !.eff = ran]
     ELSE [Return(Str(p.out)) EXCEPT !.eff = ran]

\* _get_config_value_from_secret_backend(config_key) on behalf of (section, key)
get_config_value_from_secret_backend(section, key, config_key) ==
  [Return(SecretStore[config_key]) EXCEPT
     !.eff = [NoEffects EXCEPT !.secrets = {<<section, key, config_key>>}]]

----------------------------------------------------------------------------
(* expand_env_var *)

IsWordChar(c) == c \in LowerSet \/ c \in UpperSet \/ c \in DigitSet \/ c = "_"

\* end (last position) of the run of word characters of s that starts at i
RECURSIVE WordEnd(_, _)
WordEnd(s, i) == IF i <= Len(s) /\ IsWordChar(CharAt(s, i)) THEN WordEnd(s, i + 1) ELSE i - 1

\* os.path.expandvars(path), scanning from position i
RECURSIVE ExpandVarsFrom(_, _, _)
ExpandVarsFrom(env, path, i) ==
  Let(Find(path, "$", i), LAMBDA d :
    IF d = 0 THEN path
    ELSE LET braced == CharAt(path, d + 1) = "{"
         IN Let(IF braced THEN Find(path, "}", d + 2) ELSE WordEnd(path, d + 1), LAMBDA j :
              LET name == IF braced THEN SubSeq(path, d + 2, j - 1)
                          ELSE SubSeq(path, d + 1, j)
                  matched == IF braced THEN j # 0 ELSE j > d
              IN IF ~matched THEN ExpandVarsFrom(env, path, d + 1)
                 ELSE IF name \notin DOMAIN env THEN ExpandVarsFrom(env, path, j + 1)
                 ELSE LET head == SubSeq(path, 1, d - 1) \o env[name]
                      IN ExpandVarsFrom(env, head \o SubSeq(path, j + 1, Len(path)),
                                        Len(head) + 1)))

expandvars(env, path) == ExpandVarsFrom(env, path, 1)

\* os.path.expanduser(path); the password database knows no other user
expanduser(env, path) ==
  IF ~StartsWith(path, "~") THEN path
  ELSE LET f == Find(path, "/", 2)
           i == IF f = 0 THEN Len(path) + 1 ELSE f
       IN IF i # 2 THEN path
          ELSE LET home == IF "HOME" \in DOMAIN env THEN env["HOME"] ELSE PwdHome
                   whole == (IF EndsWith(home, "/") THEN SubSeq(home, 1, Len(home) - 1)
                             ELSE home) \o SubSeq(path, i, Len(path))
               IN IF whole = "" THEN "/" ELSE whole

RECURSIVE ExpandFix(_, _)
ExpandFix(env, s) ==
  Let(expanduser(env, expandvars(env, s)), LAMBDA interpolated :
    IF interpolated = s THEN interpolated ELSE ExpandFix(env, interpolated))

\* the known strings on which expandvars and expanduser find nothing to expand
Unexpandable == {s \in KnownStrings : ~Contains(s, "$") /\ ~StartsWith(s, "~")}

\* expand_env_var(env_var)
expand_env_var(env, v) ==
  IF ~Truthy(v) THEN v
  ELSE IF v.s \in Unexpandable THEN v
  ELSE Str(ExpandFix(env, v.s))

----------------------------------------------------------------------------
(* The tiers of the resolver *)

\* AirflowConfigParser._env_var_name
env_var_name(section, key) == "AIRFLOW__" \o StrUpper(section) \o "__" \o StrUpper(key)

\* _get_env_var_option without the sensitive_config_values tests
get_env_var_option_any(env, section, key) ==
  Let(env_var_name(section, key), LAMBDA env_var :
    IF env_var \in DOMAIN env
    THEN Return(expand_env_var(env, Str(env[env_var])))
    ELSE IF env_var \o "_CMD" \in DOMAIN env
    THEN run_command(section, key, env[env_var \o "_CMD"])
    ELSE IF env_var \o "_SECRET" \in DOMAIN env
    THEN get_config_value_from_secret_backend(section, key, env[env_var \o "_SECRET"])
    ELSE Return(None))

\* AirflowConfigParser._get_env_var_option
get_env_var_option(env, section, key) ==
  Let(env_var_name(section, key), LAMBDA env_var :
    LET env_var_cmd == env_var \o "_CMD"
        env_var_secret_path == env_var \o "_SECRET"
    IN IF env_var \in DOMAIN env
       THEN Return(expand_env_var(env, Str(env[env_var])))
       ELSE IF env_var_cmd \in DOMAIN env /\ <<section, key>> \in sensitive_config_values
       THEN run_command(section, key, env[env_var_cmd])
       ELSE IF env_var_secret_path \in DOMAIN env
               /\ <<section, key>> \in sensitive_config_values
       THEN get_config_value_from_secret_backend(section, key, env[env_var_secret_path])
       ELSE Return(None))

\* ConfigParser.has_option of a store (no DEFAULT section is ever loaded)
parser_has_option(store, section, option) ==
  section \in DOMAIN store /\ option \in DOMAIN store[section]

\* AirflowConfigParser._get_cmd_option
get_cmd_option(secs, section, key) ==
  LET fallback_key == key \o "_cmd"
  IN IF <<section, key>> \in sensitive_config_values
        /\ parser_has_option(secs, section, fallback_key)
     THEN run_command(section, key, secs[section][fallback_key])
     ELSE Return(None)

\* AirflowConfigParser._get_secret_option
get_secret_option(secs, section, key) ==
  LET fallback_key == key \o "_secret"
  IN IF <<section, key>> \in sensitive_config_values
        /\ parser_has_option(secs, section, fallback_key)
     THEN get_config_value_from_secret_backend(section, key, secs[section][fallback_key])
     ELSE Return(None)

\* AirflowConfigParser._warn_deprecate
warn_deprecate(r, section, key, deprecated_name) ==
  [r EXCEPT !.eff.warns = Append(@, <<"DeprecationWarning", section, key, deprecated_name>>)]

\* keyword arguments of get: no fallback, or fallback=v
NoKw == [given |-> FALSE, fallback |-> UNSET]
Fallback(v) == [given |-> TRUE, fallback |-> v]

\* self.airflow_defaults.get(section, key, **kwargs): a plain ConfigParser, whose
\* optionxform lower-cases the key
defaults_get(defs, section, key, kw) ==
  LET k == StrLower(key)
  IN IF section \notin DOMAIN defs
     THEN IF kw.fallback = UNSET THEN Raise("NoSectionError") ELSE Return(kw.fallback)
     ELSE IF k \notin DOMAIN defs[section]
     THEN IF kw.fallback = UNSET THEN Raise("NoOptionError") ELSE Return(kw.fallback)
     ELSE Return(Str(defs[section][k]))

\* a default table that is never found to hold the key
defaults_has_option_never(defs, section, key) == FALSE

defaults_has_option(defs, section, key) ==
  section \in DOMAIN defs /\ StrLower(key) \in DOMAIN defs[section]

\* the environment tier without the retry under the old name
GetEnvTierNewOnly(env, section, key, deprecated_name) ==
  get_env_var_option(env, section, key)

\* get, from the environment tier on: "first check environment variables"
GetEnvTier(env, section, key, deprecated_name) ==
  Let(get_env_var_option(env, section, key), LAMBDA option :
    IF Raised(option) \/ option.val # None THEN option
    ELSE IF deprecated_name = "" THEN option
    ELSE Let(After(option, get_env_var_option(env, section, deprecated_name)), LAMBDA old :
           IF Raised(old) \/ old.val = None THEN old
           ELSE warn_deprecate(old, section, key, deprecated_name)))

\* the file tier that asks for the old name first
GetFileTierOldFirst(env, secs, section, key, deprecated_name) ==
  IF deprecated_name # "" /\ parser_has_option(secs, section, deprecated_name)
  THEN warn_deprecate(Return(expand_env_var(env, Str(secs[section][deprecated_name]))),
                      section, key, deprecated_name)
  ELSE IF parser_has_option(secs, section, key)
  THEN Return(expand_env_var(env, Str(secs[section][key])))
  ELSE Return(None)

\* "...then the config file"
GetFileTier(env, secs, section, key, deprecated_name) ==
  IF parser_has_option(secs, section, key)
  THEN Return(expand_env_var(env, Str(secs[section][key])))
  ELSE IF deprecated_name # "" /\ parser_has_option(secs, section, deprecated_name)
  THEN warn_deprecate(Return(expand_env_var(env, Str(secs[section][deprecated_name]))),
                      section, key, deprecated_name)
  ELSE Return(None)

\* "...then commands"
GetCmdTier(secs, section, key, deprecated_name) ==
  Let(get_cmd_option(secs, section, key), LAMBDA option :
    IF Raised(option) \/ Truthy(option.val) THEN option
    ELSE IF deprecated_name = "" THEN [option EXCEPT !.val = None]
    ELSE Let(After(option, get_cmd_option(secs, section, deprecated_name)), LAMBDA old :
           IF Raised(old) THEN old
           ELSE IF Truthy(old.val) THEN warn_deprecate(old, section, key, deprecated_name)
           ELSE [old EXCEPT !.val = None]))

\* "...then from secret backends"
GetSecretTier(secs, section, key, deprecated_name) ==
  Let(get_secret_option(secs, section, key), LAMBDA option :
    IF Raised(option) \/ Truthy(option.val) THEN option
    ELSE IF deprecated_name = "" THEN [option EXCEPT !.val = None]
    ELSE Let(After(option, get_secret_option(secs, section, deprecated_name)), LAMBDA old :
           IF Raised(old) THEN old
           ELSE IF Truthy(old.val) THEN warn_deprecate(old, section, key, deprecated_name)
           ELSE [old EXCEPT !.val = None]))

\* the default tier with a retry under the old name
GetDefaultTierRetry(env, defs, section, key, kw) ==
  IF defaults_has_option(defs, section, key) \/ kw.given
  THEN Let(defaults_get(defs, section, key, kw), LAMBDA d :
         IF Raised(d) THEN d ELSE Return(expand_env_var(env, d.val)))
  ELSE IF DeprecatedName(section, key) # ""
          /\ defaults_has_option(defs, section, DeprecatedName(section, key))
  THEN warn_deprecate(
         Return(expand_env_var(env, defaults_get(defs, section,
                                                 DeprecatedName(section, key), kw).val)),
         section, key, DeprecatedName(section, key))
  ELSE [Raise("AirflowConfigException: not found") EXCEPT
          !.eff.logs = << <<"warning", section, key>> >>]

\* "...then the default config", or the failure
GetDefaultTier(env, defs, section, key, kw) ==
  IF defaults_has_option(defs, section, key) \/ kw.given
  THEN Let(defaults_get(defs, section, key, kw), LAMBDA d :
         IF Raised(d) THEN d ELSE Return(expand_env_var(env, d.val)))
  ELSE [Raise("AirflowConfigException: not found") EXCEPT
          !.eff.logs = << <<"warning", section, key>> >>]

\* a tier that returned nothing hands over to the next one
OrElse(r, next) == IF Raised(r) \/ r.val # None THEN r ELSE After(r, next)

\* get that reads the config file before the environment
get_file_first(env, secs, defs, section0, key0, kw) ==
  Let(StrLower(section0), LAMBDA section :
  Let(StrLower(key0), LAMBDA key :
  Let(DeprecatedName(section, key), LAMBDA deprecated_name :
    OrElse(GetFileTier(env, secs, section, key, deprecated_name),
    OrElse(GetEnvTier(env, section, key, deprecated_name),
    OrElse(GetCmdTier(secs, section, key, deprecated_name),
    OrElse(GetSecretTier(secs, section, key, deprecated_name),
           GetDefaultTier(env, defs, section, key, kw))))))))

\* AirflowConfigParser.get(section, key, **kwargs)
get(env, secs, defs, section0, key0, kw) ==
  Let(StrLower(section0), LAMBDA section :
  Let(StrLower(key0), LAMBDA key :
  Let(DeprecatedName(section, key), LAMBDA deprecated_name :
    OrElse(GetEnvTier(env, section, key, deprecated_name),
    OrElse(GetFileTier(env, secs, section, key, deprecated_name),
    OrElse(GetCmdTier(secs, section, key, deprecated_name),
    OrElse(GetSecretTier(secs, section, key, deprecated_name),
           GetDefaultTier(env, defs, section, key, kw))))))))

\* the parse without the comment rule
ParseBooleanNoComment(v) ==
  Let(Strip(StrLower(IF v.t = "str" THEN v.s ELSE "None")), LAMBDA val :
    IF val \in {"t", "true", "1"} THEN Return(Bool(TRUE))
    ELSE IF val \in {"f", "false", "0"} THEN Return(Bool(FALSE))
    ELSE Raise("ValueError: not a boolean"))

\* AirflowConfigParser.getboolean: the parse of the resolved value
ParseBoolean(v) ==
  Let(Strip(StrLower(IF v.t = "str" THEN v.s ELSE "None")), LAMBDA low :
  Let(IF Contains(low, "#") THEN Strip(SplitFirst(low, "#")) ELSE low, LAMBDA val :
    IF val \in {"t", "true", "1"} THEN Return(Bool(TRUE))
    ELSE IF val \in {"f", "false", "0"} THEN Return(Bool(FALSE))
    ELSE Raise("ValueError: not a boolean")))

\* AirflowConfigParser.getboolean(section, key, **kwargs)
getboolean(env, secs, defs, section, key, kw) ==
  Let(get(env, secs, defs, section, key, kw), LAMBDA r :
    IF Raised(r) THEN r ELSE After(r, ParseBoolean(r.val)))

\* int(s) and float(s) of a resolved value
ParseInt(v) ==
  IF v.t = "str" /\ IsInt(v.s) THEN Return([t |-> "int", s |-> Strip(v.s)])
  ELSE Raise(IF v.t = "str" THEN "ValueError: int" ELSE "TypeError")

ParseFloat(v) ==
  IF v.t = "str" /\ IsFloat(v.s) THEN Return([t |-> "float", s |-> Strip(v.s)])
  ELSE Raise(IF v.t = "str" THEN "ValueError: float" ELSE "TypeError")

\* AirflowConfigParser.getint(section, key, **kwargs)
getint(env, secs, defs, section, key, kw) ==
  Let(get(env, secs, defs, section, key, kw), LAMBDA r :
    IF Raised(r) THEN r ELSE After(r, ParseInt(r.val)))

\* AirflowConfigParser.getfloat(section, key, **kwargs)
getfloat(env, secs, defs, section, key, kw) ==
  Let(get(env, secs, defs, section, key, kw), LAMBDA r :
    IF Raised(r) THEN r ELSE After(r, ParseFloat(r.val)))

\* AirflowConfigParser.has_option(section, option)
has_option(env, secs, defs, section, option) ==
  Let(get(env, secs, defs, section, option, Fallback(UNSET)), LAMBDA r :
    IF r.exc \in {"NoOptionError", "NoSectionError"}
    THEN [Return(Bool(FALSE)) EXCEPT !.eff = r.eff]
    ELSE IF Raised(r) THEN r
    ELSE [Return(Bool(TRUE)) EXCEPT !.eff = r.eff])

----------------------------------------------------------------------------
(* Validation *)

\* multiprocessing.get_all_start_methods() on Linux
StartMethods == {"fork", "spawn", "forkserver"}

\* r, then (if r did not raise) next, which keeps what r did
Bind(r, next) == IF Raised(r) THEN r ELSE After(r, next)

\* the condition P(value) on the value a call returned
Test(r, P(_)) == IF Raised(r) THEN r ELSE [r EXCEPT !.val = Bool(P(r.val))]

\* a and b: b is evaluated only when a is true
And(a, b) == IF Raised(a) \/ a.val = Bool(FALSE) THEN a ELSE After(a, b)

\* one arm of an if / elif chain whose body raises: "if c: raise ... else: rest"
IfRaise(c, raising, rest) ==
  IF Raised(c) THEN c ELSE IF c.val = Bool(TRUE) THEN After(c, raising) ELSE After(c, rest)

\* executor not in ('DebugExecutor', 'SequentialExecutor') and "sqlite" in sql_alchemy_conn
SqliteCondition(env, secs, defs) ==
  And(Test(get(env, secs, defs, "core", "executor", NoKw),
           LAMBDA v : v.s \notin {"DebugExecutor", "SequentialExecutor"}),
      Test(get(env, secs, defs, "core", "sql_alchemy_conn", NoKw),
           LAMBDA v : Contains(v.s, "sqlite")))

\* authenticate and owner_mode not in ['user', 'ldapgroup']
OwnerModeCondition(env, secs, defs) ==
  And(getboolean(env, secs, defs, "webserver", "authenticate", NoKw),
      Test(get(env, secs, defs, "webserver", "owner_mode", NoKw),
           LAMBDA v : v.s \notin {"user", "ldapgroup"}))

\* the ldapgroup condition without the test of authenticate
LdapGroupConditionAnyone(env, secs, defs) ==
  And(Test(get(env, secs, defs, "webserver", "owner_mode", NoKw),
           LAMBDA v : StrLower(v.s) = "ldapgroup"),
      Test(get(env, secs, defs, "webserver", "auth_backend", NoKw),
           LAMBDA v : v.s # "airflow.contrib.auth.backends.ldap_auth"))

\* authenticate and owner_mode.lower() == 'ldapgroup' and auth_backend != ldap_auth
LdapGroupCondition(env, secs, defs) ==
  And(getboolean(env, secs, defs, "webserver", "authenticate", NoKw),
  And(Test(get(env, secs, defs, "webserver", "owner_mode", NoKw),
           LAMBDA v : StrLower(v.s) = "ldapgroup"),
      Test(get(env, secs, defs, "webserver", "auth_backend", NoKw),
           LAMBDA v : v.s # "airflow.contrib.auth.backends.ldap_auth")))

\* the chain with the owner_mode arm before the sqlite arm
ValidateChainOwnerFirst(env, secs, defs) ==
  IfRaise(OwnerModeCondition(env, secs, defs),
          Raise("AirflowConfigException: owner_mode should be user or ldapgroup"),
  IfRaise(SqliteCondition(env, secs, defs),
          Bind(get(env, secs, defs, "core", "executor", NoKw),
               Raise("AirflowConfigException: cannot use sqlite")),
  IfRaise(LdapGroupCondition(env, secs, defs),
          Raise("AirflowConfigException: ldapgroup without Ldap backend"),
          Return(None))))

\* the if / elif / elif chain
ValidateChain(env, secs, defs) ==
  IfRaise(SqliteCondition(env, secs, defs),
          Bind(get(env, secs, defs, "core", "executor", NoKw),
               Raise("AirflowConfigException: cannot use sqlite")),
  IfRaise(OwnerModeCondition(env, secs, defs),
          Raise("AirflowConfigException: owner_mode should be user or ldapgroup"),
  IfRaise(LdapGroupCondition(env, secs, defs),
          Raise("AirflowConfigException: ldapgroup without Ldap backend"),
          Return(None))))

\* the mp_start_method rule: the second, separate "if" of the function
ValidateStartMethod(env, secs, defs) ==
  Let(has_option(env, secs, defs, "core", "mp_start_method"), LAMBDA has :
    IF Raised(has) \/ has.val = Bool(FALSE) THEN has
    ELSE Let(After(has, get(env, secs, defs, "core", "mp_start_method", NoKw)),
             LAMBDA mp_start_method :
           IF Raised(mp_start_method) THEN mp_start_method
           ELSE IF mp_start_method.val.s \notin StartMethods
           THEN After(mp_start_method,
                      Raise("AirflowConfigException: mp_start_method should not be"))
           ELSE mp_start_method))

\* AirflowConfigParser._validate_config_dependencies
validate_config_dependencies(env, secs, defs) ==
  Bind(ValidateChain(env, secs, defs), ValidateStartMethod(env, secs, defs))

\* the entries of deprecated_values, in the order the loops visit them
DeprecatedValueEntries ==
  << <<"core", "task_runner", deprecated_values["core"]["task_runner"][1],
       deprecated_values["core"]["task_runner"][2],
       deprecated_values["core"]["task_runner"][3]>> >>

\* a set that writes nothing
parser_set_nothing(secs, section, option, value) == secs

\* ConfigParser.set(section, option, value) on the file-backed store
parser_set(secs, section, option, value) ==
  [secs EXCEPT ![section] = [k \in DOMAIN secs[section] \cup {option} |->
                               IF k = option THEN value ELSE secs[section][k]]]

\* os.environ.pop(name, None)
environ_pop(env, name) == [n \in DOMAIN env \ {name} |-> env[n]]

\* the body of the loops of _validate for entry i and those after it; st is
\* [env, secs, r]: the environment, the store and the call so far
RECURSIVE MigrateFrom(_, _, _)
MigrateFrom(st, defs, i) ==
  IF i > Len(DeprecatedValueEntries) \/ Raised(st.r) THEN st
  ELSE LET e == DeprecatedValueEntries[i]
           section == e[1]
           name == e[2]
       IN Let(After(st.r, get(st.env, st.secs, defs, section, name, Fallback(None))),
              LAMBDA cur :
            IF Raised(cur) THEN [st EXCEPT !.r = cur]
            ELSE IF cur.val # Str(e[3]) THEN MigrateFrom([st EXCEPT !.r = cur], defs, i + 1)
            ELSE Let(environ_pop(st.env, env_var_name(section, name)), LAMBDA env2 :
                   IF section \notin DOMAIN st.secs
                   THEN [env |-> env2, secs |-> st.secs,
                         r |-> After(cur, Raise("NoSectionError"))]
                   ELSE MigrateFrom(
                          [env |-> env2,
                           secs |-> parser_set(st.secs, section, name, e[4]),
                           r |-> [cur EXCEPT !.eff.warns =
                                    Append(@, <<"FutureWarning", section, name, e[3]>>)]],
                          defs, i + 1)))

\* a validation pass that migrates the values before it checks the dependencies
validate_migrating_first(env, secs, defs, was_validated) ==
  Let(MigrateFrom([env |-> env, secs |-> secs, r |-> Return(None)], defs, 1), LAMBDA st :
  Let(Bind(st.r, validate_config_dependencies(st.env, st.secs, defs)), LAMBDA r :
    [env |-> st.env, secs |-> st.secs,
     r |-> IF Raised(r) THEN r ELSE [r EXCEPT !.val = None],
     validated |-> IF Raised(r) THEN was_validated ELSE TRUE]))

\* AirflowConfigParser._validate: [env, secs, r, validated]
validate(env, secs, defs, was_validated) ==
  Let(MigrateFrom([env |-> env, secs |-> secs,
                   r |-> validate_config_dependencies(env, secs, defs)], defs, 1),
      LAMBDA st :
    [env |-> st.env, secs |-> st.secs,
     r |-> IF Raised(st.r) THEN st.r ELSE [st.r EXCEPT !.val = None],
     validated |-> IF Raised(st.r) THEN was_validated ELSE TRUE])

----------------------------------------------------------------------------
(* remove_option, getsection, as_dict *)

\* a store without option `option` of section `section`
parser_remove_option(store, section, option) ==
  [store EXCEPT ![section] = [k \in DOMAIN store[section] \ {option} |-> store[section][k]]]

\* AirflowConfigParser.remove_option: [secs, defs]
remove_option(secs, defs, section, option, remove_default) ==
  [secs |-> IF parser_has_option(secs, section, option)
            THEN parser_remove_option(secs, section, option) ELSE secs,
   defs |-> IF defaults_has_option(defs, section, option) /\ remove_default
            THEN parser_remove_option(defs, section, StrLower(option)) ELSE defs]

\* s.replace(p, "")
RECURSIVE Remove(_, _)
Remove(s, p) ==
  LET i == Find(s, p, 1)
  IN IF p = "" \/ i = 0 THEN s
     ELSE SubSeq(s, 1, i - 1) \o Remove(SubSeq(s, i + Len(p), Len(s)), p)

\* the conversion at the end of getsection
Convert(s) ==
  IF IsInt(s) THEN [t |-> "int", s |-> Strip(s)]
  ELSE IF IsFloat(s) THEN [t |-> "float", s |-> Strip(s)]
  ELSE IF StrLower(s) \in {"t", "true"} THEN Bool(TRUE)
  ELSE IF StrLower(s) \in {"f", "false"} THEN Bool(FALSE)
  ELSE Str(s)

\* a call result with the dictionary it returns
WithOut(r, out) == [r |-> r, out |-> out]

\* the union of what the calls rs did
RECURSIVE EffectsOf(_)
EffectsOf(rs) ==
  IF rs = {} THEN NoEffects
  ELSE LET r == CHOOSE x \in rs : TRUE IN JoinEffects(r.eff, EffectsOf(rs \ {r}))

\* the first of the calls rs that raised, with what all of them did
Raising(rs) ==
  [(CHOOSE r \in rs : Raised(r)) EXCEPT !.eff = EffectsOf(rs)]

\* the key a variable name of the section stands for in getsection
SectionKey(env_var, section_prefix) ==
  Let(Remove(env_var, section_prefix), LAMBDA key :
    StrLower(IF EndsWith(key, "_CMD") THEN SubSeq(key, 1, Len(key) - 4) ELSE key))

\* the end of getsection: _section is the merged section, calls what the
\* environment lookups returned
ConvertSection(_section, calls) ==
  IF \E r \in calls : Raised(r) THEN WithOut(Raising(calls), << >>)
  ELSE IF \E k \in DOMAIN _section : _section[k] = None
  THEN WithOut([Raise("TypeError") EXCEPT !.eff = EffectsOf(calls)], << >>)
  ELSE WithOut([Return(Str("dict")) EXCEPT !.eff = EffectsOf(calls)],
               [k \in DOMAIN _section |-> Convert(_section[k].s)])

\* AirflowConfigParser.getsection(section): [r, out]
getsection(env, secs, defs, section) ==
  IF section \notin DOMAIN secs /\ section \notin DOMAIN defs
  THEN WithOut(Return(None), << >>)
  ELSE IF section \notin DOMAIN defs
  THEN WithOut(Raise("KeyError"), << >>)
  ELSE
    Let("AIRFLOW__" \o StrUpper(section) \o "__", LAMBDA section_prefix :
    Let({SectionKey(n, section_prefix) :
           n \in {m \in DOMAIN env : StartsWith(m, section_prefix)}}, LAMBDA env_keys :
    Let([k \in env_keys |-> get_env_var_option(env, section, k)], LAMBDA option :
      LET file == IF section \in DOMAIN secs THEN secs[section] ELSE << >>
      IN ConvertSection(
           [k \in DOMAIN defs[section] \cup DOMAIN file \cup env_keys |->
              IF k \in env_keys THEN option[k].val
              ELSE IF k \in DOMAIN file THEN Str(file[k])
              ELSE Str(defs[section][k])],
           {option[k] : k \in env_keys}))))

\* AirflowConfigParser.write(fp): getsection for every section of the
\* file-backed table (what _write_section then prints is the parent's affair)
write(env, secs, defs) ==
  IF \E section \in DOMAIN secs : Raised(getsection(env, secs, defs, section).r)
  THEN Raising({getsection(env, secs, defs, section).r : section \in DOMAIN secs})
  ELSE [Return(None) EXCEPT
          !.eff = EffectsOf({getsection(env, secs, defs, section).r : section \in DOMAIN secs})]

\* a value of the snapshot: the value, or the pair (value, source)
Entry(v, source, display_source) ==
  [val |-> v, source |-> IF display_source THEN source ELSE ""]

Hidden == Str("< hidden >")

\* the first loop of as_dict: the default table, then the file-backed table
AsDictTables(secs, defs, display_source) ==
  [s \in DOMAIN defs \cup DOMAIN secs |->
     LET d == IF s \in DOMAIN defs THEN defs[s] ELSE << >>
         f == IF s \in DOMAIN secs THEN secs[s] ELSE << >>
     IN [k \in DOMAIN d \cup DOMAIN f |->
           IF k \in DOMAIN f THEN Entry(Str(f[k]), "airflow.cfg", display_source)
           ELSE Entry(Str(d[k]), "default", display_source)]]

\* cfg.setdefault(section, OrderedDict()).update({key: opt})
CfgUpdate(cfg, section, key, opt) ==
  [s \in DOMAIN cfg \cup {section} |->
     IF s # section THEN cfg[s]
     ELSE LET old == IF s \in DOMAIN cfg THEN cfg[s] ELSE << >>
          IN [k \in DOMAIN old \cup {key} |-> IF k = key THEN opt ELSE old[k]]]

\* ev.split('__', 2) of a name that starts with AIRFLOW__: <<section, key>>, or
\* << >> when there are fewer than three parts (the ValueError that is skipped)
SplitEnvVar(ev) ==
  LET rest == SubSeq(ev, Len("AIRFLOW__") + 1, Len(ev))
      i == Find(rest, "__", 1)
  IN IF i = 0 THEN << >>
     ELSE <<SubSeq(rest, 1, i - 1), SubSeq(rest, i + 2, Len(rest))>>

\* "add env vars and overwrite because they have priority": the variables of evs
\* one after the other ([r, out], out the snapshot)
RECURSIVE AsDictEnv(_, _, _, _, _, _)
AsDictEnv(acc, evs, env, display_source, display_sensitive, raw) ==
  IF evs = {} \/ Raised(acc.r) THEN acc
  ELSE
    Let(CHOOSE n \in evs : \A m \in evs : Len(n) <= Len(m), LAMBDA ev :
    Let(SplitEnvVar(ev), LAMBDA parts :
      IF parts = << >>
      THEN AsDictEnv(acc, evs \ {ev}, env, display_source, display_sensitive, raw)
      ELSE
        Let(get_env_var_option(env, parts[1], parts[2]), LAMBDA opt :
        Let(StrLower(parts[1]), LAMBDA section :
          LET shown == IF ~display_sensitive /\ ev # "AIRFLOW__CORE__UNIT_TEST_MODE"
                       THEN Hidden ELSE opt.val
              key == IF section # "kubernetes_environment_variables"
                     THEN StrLower(parts[2]) ELSE parts[2]
          IN IF Raised(opt) THEN WithOut(After(acc.r, opt), acc.out)
             ELSE IF shown = None /\ raw
             THEN WithOut(After(acc.r, After(opt, Raise("AttributeError"))), acc.out)
             ELSE AsDictEnv(
                    WithOut(After(acc.r, [opt EXCEPT !.val = None]),
                            CfgUpdate(acc.out, section, key,
                                      Entry(shown, "env var", display_source))),
                    evs \ {ev}, env, display_source, display_sensitive, raw)))))

\* "add bash commands" / "add config from secret backends": the sensitive
\* settings ids one after the other; suffix is "_cmd" or "_secret"
RECURSIVE AsDictIndirect(_, _, _, _, _, _, _)
AsDictIndirect(acc, ids, secs, suffix, source, display_source, display_sensitive) ==
  IF ids = {} \/ Raised(acc.r) THEN acc
  ELSE
    Let(CHOOSE x \in ids : TRUE, LAMBDA id :
    Let(IF suffix = "_cmd" THEN get_cmd_option(secs, id[1], id[2])
        ELSE get_secret_option(secs, id[1], id[2]), LAMBDA opt :
    Let(CfgUpdate(acc.out, id[1], id[2],
                  Entry(IF ~display_sensitive THEN Hidden ELSE opt.val, source,
                        display_source)), LAMBDA cfg :
      LET paired == id[2] \o suffix
      IN IF Raised(opt) THEN WithOut(After(acc.r, opt), acc.out)
         ELSE IF ~Truthy(opt.val)
         THEN AsDictIndirect(WithOut(After(acc.r, [opt EXCEPT !.val = None]), acc.out),
                             ids \ {id}, secs, suffix, source, display_source,
                             display_sensitive)
         ELSE IF paired \notin DOMAIN cfg[id[1]]
         THEN WithOut(After(acc.r, After(opt, Raise("KeyError"))), cfg)
         ELSE AsDictIndirect(
                WithOut(After(acc.r, [opt EXCEPT !.val = None]),
                        parser_remove_option(cfg, id[1], paired)),
                ids \ {id}, secs, suffix, source, display_source, display_sensitive))))

\* the keyword arguments of as_dict
AsDictFlags(display_source, display_sensitive, raw, include_env, include_cmds,
            include_secret) ==
  [display_source |-> display_source, display_sensitive |-> display_sensitive,
   raw |-> raw, include_env |-> include_env, include_cmds |-> include_cmds,
   include_secret |-> include_secret]

\* "if include_env:"
IncludeEnv(cfg, env, f) ==
  IF f.include_env
  THEN AsDictEnv(cfg, {n \in DOMAIN env : StartsWith(n, "AIRFLOW__")}, env,
                 f.display_source, f.display_sensitive, f.raw)
  ELSE cfg

\* the command layer that never masks
IncludeCmdsInClear(cfg, secs, f) ==
  IF f.include_cmds
  THEN AsDictIndirect(cfg, sensitive_config_values, secs, "_cmd", "cmd",
                      f.display_source, TRUE)
  ELSE cfg

\* "if include_cmds:"
IncludeCmds(cfg, secs, f) ==
  IF f.include_cmds
  THEN AsDictIndirect(cfg, sensitive_config_values, secs, "_cmd", "cmd",
                      f.display_source, f.display_sensitive)
  ELSE cfg

\* "if include_secret:"
IncludeSecret(cfg, secs, f) ==
  IF f.include_secret
  THEN AsDictIndirect(cfg, sensitive_config_values, secs, "_secret", "secret",
                      f.display_source, f.display_sensitive)
  ELSE cfg

\* "return cfg", unless a step raised
ReturnCfg(cfg) ==
  IF Raised(cfg.r) THEN WithOut(cfg.r, << >>)
  ELSE WithOut([cfg.r EXCEPT !.val = Str("dict")], cfg.out)

\* as_dict that layers the command results over the secret results
as_dict_secrets_first(env, secs, defs, f) ==
  ReturnCfg(
    IncludeCmds(
      IncludeSecret(
        IncludeEnv(WithOut(Return(None), AsDictTables(secs, defs, f.display_source)),
                   env, f),
        secs, f),
      secs, f))

\* AirflowConfigParser.as_dict(...): [r, out]
as_dict(env, secs, defs, f) ==
  ReturnCfg(
    IncludeSecret(
      IncludeCmds(
        IncludeEnv(WithOut(Return(None), AsDictTables(secs, defs, f.display_source)),
                   env, f),
        secs, f),
      secs, f))

\* the snapshot as the content of a file-backed store: section -> key -> string
SnapshotValues(out) == [s \in DOMAIN out |-> [k \in DOMAIN out[s] |-> out[s][k].val.s]]

----------------------------------------------------------------------------
(* The state machine *)

\* what an operation leaves in ret: the call, what it was given (loaded: the
\* dictionary of a load), what it raised or returned, what it did, the
\* dictionary it returned (out) and, for the round trip, what get gave before
Outcome(op, section, key, loaded, r, out, before) ==
  [op |-> op, section |-> section, key |-> key, loaded |-> loaded,
   exc |-> r.exc, val |-> r.val, eff |-> r.eff, out |-> out, before |-> before]

AirflowVars(env) == {n \in DOMAIN env : StartsWith(n, "AIRFLOW__")}

\* AirflowConfigParser.__init__(default_config), default_config one of configs
InitWith(configs) ==
  /\ environ = BaseEnviron
  /\ sections = << >>
  /\ defaults \in configs
  /\ is_validated = FALSE
  /\ nloads = 0
  /\ ret = Outcome("__init__", "", "", << >>, Return(None), << >>, << >>)

\* os.environ[name] = value, by the process or its parent
SetEnv(name, value) ==
  /\ Cardinality(AirflowVars(environ) \cup {name}) <= MaxEnvVars
  /\ environ' = [n \in DOMAIN environ \cup {name} |-> IF n = name THEN value ELSE environ[n]]
  /\ ret' = Outcome("setenv", "", name, << >>, Return(None), << >>, << >>)
  /\ UNCHANGED <<sections, defaults, is_validated, nloads>>

\* del os.environ[name]
UnsetEnv(name) ==
  /\ name \in AirflowVars(environ)
  /\ environ' = environ_pop(environ, name)
  /\ ret' = Outcome("unsetenv", "", name, << >>, Return(None), << >>, << >>)
  /\ UNCHANGED <<sections, defaults, is_validated, nloads>>

\* ConfigParser.read / read_dict: the parsed content goes into the store
parser_read_dict(secs, d) ==
  [s \in DOMAIN secs \cup DOMAIN d |->
     IF s \notin DOMAIN d THEN secs[s]
     ELSE IF s \notin DOMAIN secs THEN d[s]
     ELSE [k \in DOMAIN secs[s] \cup DOMAIN d[s] |->
             IF k \in DOMAIN d[s] THEN d[s][k] ELSE secs[s][k]]]

\* the end of a load: v is what self._validate() did
Validated(op, d, v) ==
  /\ environ' = v.env
  /\ sections' = v.secs
  /\ is_validated' = v.validated
  /\ ret' = Outcome(op, "", "", d, v.r, << >>, << >>)

\* a load: the parent's read or read_dict, then self._validate()
Load(op, d) ==
  /\ nloads < MaxLoads
  /\ Validated(op, d, validate(environ, parser_read_dict(sections, d), defaults, is_validated))
  /\ nloads' = nloads + 1
  /\ UNCHANGED defaults

\* AirflowConfigParser.read(filenames), the file holding d
Read(d) == Load("read", d)

\* AirflowConfigParser.read_dict(dictionary)
ReadDict(d) == Load("read_dict", d)

\* an accessor: it changes nothing and leaves its result
Query(op, section, key, r, out) ==
  /\ ret' = Outcome(op, section, key, << >>, r, out, << >>)
  /\ UNCHANGED <<environ, sections, defaults, is_validated, nloads>>

\* conf.get(section, key) and conf.get(section, key, fallback=...)
Get(section, key, kw) ==
  Query(IF kw.given THEN "get_fallback" ELSE "get", section, key,
        get(environ, sections, defaults, section, key, kw), << >>)

\* conf.getboolean(section, key)
GetBoolean(section, key) ==
  Query("getboolean", section, key,
        getboolean(environ, sections, defaults, section, key, NoKw), << >>)

\* conf.getint(section, key)
GetInt(section, key) ==
  Query("getint", section, key, getint(environ, sections, defaults, section, key, NoKw), << >>)

\* conf.getfloat(section, key)
GetFloat(section, key) ==
  Query("getfloat", section, key,
        getfloat(environ, sections, defaults, section, key, NoKw), << >>)

\* conf.has_option(section, option)
HasOption(section, option) ==
  Query("has_option", section, option,
        has_option(environ, sections, defaults, section, option), << >>)

\* an accessor that returns a dictionary: g is [r, out]
QueryDict(op, section, key, g) == Query(op, section, key, g.r, g.out)

\* conf.getsection(section)
GetSection(section) ==
  QueryDict("getsection", section, "", getsection(environ, sections, defaults, section))

\* conf.write(fp)
Write == Query("write", "", "", write(environ, sections, defaults), << >>)

\* conf.as_dict(display_source=..., display_sensitive=...)
AsDict(display_source, display_sensitive) ==
  QueryDict("as_dict", IF display_source THEN "display_source" ELSE "",
            IF display_sensitive THEN "display_sensitive" ELSE "",
            as_dict(environ, sections, defaults,
                    AsDictFlags(display_source, display_sensitive, FALSE, TRUE, TRUE, TRUE)))

\* the end of remove_option: m is [secs, defs]
Removed(section, option, m) ==
  /\ sections' = m.secs
  /\ defaults' = m.defs
  /\ ret' = Outcome("remove_option", section, option, << >>, Return(None), << >>, << >>)
  /\ UNCHANGED <<environ, is_validated, nloads>>

\* conf.remove_option(section, option, remove_default)
RemoveOption(section, option, remove_default) ==
  Removed(section, option, remove_option(sections, defaults, section, option, remove_default))

\* the settings a resolver can be asked about: the keys of its tables, those
\* the environment names, the sensitive ones and the renamed ones
Identities(env, secs, defs) ==
  UNION {{<<s, k>> : k \in DOMAIN secs[s]} : s \in DOMAIN secs}
  \cup UNION {{<<s, k>> : k \in DOMAIN defs[s]} : s \in DOMAIN defs}
  \cup {<<StrLower(SplitEnvVar(n)[1]), StrLower(SplitEnvVar(n)[2])>> :
          n \in {m \in AirflowVars(env) : SplitEnvVar(m) # << >>}}
  \cup sensitive_config_values
  \cup UNION {{<<s, k>> : k \in DOMAIN deprecated_options[s]} : s \in DOMAIN deprecated_options}

\* the round trip: the snapshot as_dict(display_source=False,
\* display_sensitive=True) of this resolver is loaded, with read_dict, into a new
\* resolver built on the same default_config in the same environment
Reloaded(snap, before, v) ==
  IF Raised(snap.r)
  THEN /\ ret' = Outcome("as_dict", "", "display_sensitive", << >>, snap.r, << >>, << >>)
       /\ UNCHANGED <<environ, sections, is_validated>>
  ELSE /\ environ' = v.env
       /\ sections' = v.secs
       /\ is_validated' = v.validated
       /\ ret' = Outcome("round_trip", "", "", SnapshotValues(snap.out),
                         After(snap.r, v.r), << >>, before)

\* the new resolver's load of the snapshot snap
Reload(snap, before) ==
  Reloaded(snap, before,
           validate(environ, parser_read_dict(<< >>, SnapshotValues(snap.out)),
                    defaults, FALSE))

RoundTrip ==
  /\ nloads < MaxLoads
  /\ Reload(as_dict(environ, sections, defaults,
                    AsDictFlags(FALSE, TRUE, FALSE, TRUE, TRUE, TRUE)),
            [a \in Identities(environ, sections, defaults) |->
               get(environ, sections, defaults, a[1], a[2], NoKw)])
  /\ nloads' = nloads + 1
  /\ UNCHANGED defaults

----------------------------------------------------------------------------
(* The specifications *)

\* SpecResolve: the tiers of get around celery.broker_url, renamed from
\* celery_broker_url and sensitive
InitResolve == InitWith(DefaultConfigs)

NextResolve ==
  \/ \E e \in ResolveEnv : SetEnv(e[1], e[2])
  \/ \E e \in ResolveEnv : UnsetEnv(e[1])
  \/ \E d \in ResolveDicts : ReadDict(d)
  \/ \E rd \in BOOLEAN : RemoveOption("celery", "broker_url", rd)
  \/ \E a \in ResolveArgs : Get(a[1], a[2], NoKw)
  \/ Get("celery", "broker_url", Fallback(Str("amqp://fallback")))
  \/ HasOption("celery", "broker_url")

SpecResolve == InitResolve /\ [][NextResolve]_vars

\* SpecValidate: loads and _validate
InitValidate == InitWith({NewDefaults})

NextValidate ==
  \/ \E e \in ValidateEnv : SetEnv(e[1], e[2])
  \/ \E e \in ValidateEnv : UnsetEnv(e[1])
  \/ \E d \in ValidateFiles : Read(d)
  \/ \E d \in ValidateDicts : ReadDict(d)
  \/ \E a \in ValidateArgs : Get(a[1], a[2], NoKw)
  \/ GetBoolean("webserver", "authenticate")

SpecValidate == InitValidate /\ [][NextValidate]_vars

\* Spec: every accessor, the export and its reload, on settings with command
\* and secret hints
Init == InitWith({NewDefaults})

Next ==
  \/ \E e \in ExportEnv : SetEnv(e[1], e[2])
  \/ \E e \in ExportEnv : UnsetEnv(e[1])
  \/ \E d \in ExportFiles : Read(d)
  \/ \E d \in ExportDicts : ReadDict(d)
  \/ \E a \in ExportArgs : Get(a[1], a[2], NoKw)
  \/ GetBoolean("core", "executor")
  \/ GetInt("core", "parallelism")
  \/ GetFloat("core", "parallelism")
  \/ HasOption("core", "executor")
  \/ \E section \in {"core", "celery"} : GetSection(section)
  \/ \E display_source, display_sensitive \in BOOLEAN :
       AsDict(display_source, display_sensitive)
  \/ RoundTrip

Spec == Init /\ [][Next]_vars

\* SpecBool: getboolean on every short string over BoolAlphabet and on some
\* longer ones
BoolAlphabet == {"t", "T", "f", "1", "0", " ", "#", "x"}

RECURSIVE StringsUpTo(_)
StringsUpTo(n) ==
  IF n = 0 THEN {""}
  ELSE LET shorter == StringsUpTo(n - 1)
       IN shorter \cup {c \o w : c \in BoolAlphabet, w \in shorter}

BoolStrings ==
  StringsUpTo(MaxBoolLen)
  \cup {"True", "true", "TRUE", "False", "false", "maybe", "yes", "t  # comment",
        "0 # off", " true ", "true#", "tr ue", "# true"}

InitBool ==
  /\ environ = BaseEnviron
  /\ \E str \in BoolStrings : sections = Setting("webserver", "authenticate", str)
  /\ defaults = << >>
  /\ is_validated = FALSE
  /\ nloads = 0
  /\ ret = Outcome("__init__", "", "", << >>, Return(None), << >>, << >>)

NextBool == GetBoolean("webserver", "authenticate")

SpecBool == InitBool /\ [][NextBool]_vars

\* SpecExport: as_dict and getsection on stores with command and secret hints,
\* under variables that as_dict layers in
InitExport == InitWith({NewDefaults})

NextExport ==
  \/ \E e \in SnapshotEnv : SetEnv(e[1], e[2])
  \/ \E e \in SnapshotEnv : UnsetEnv(e[1])
  \/ \E d \in SnapshotFiles : Read(d)
  \/ \E section \in SnapshotSections : GetSection(section)
  \/ \E display_source, display_sensitive \in BOOLEAN :
       AsDict(display_source, display_sensitive)
  \/ Write

SpecExport == InitExport /\ [][NextExport]_vars

\* SpecCase: get on stores whose sections and keys have upper-case letters
InitCase == InitWith({NewDefaults})

NextCase ==
  \/ \E d \in CaseDicts : ReadDict(d)
  \/ \E a \in CaseArgs : Get(a[1], a[2], NoKw)
  \/ \E a \in CaseArgs : HasOption(a[1], a[2])

SpecCase == InitCase /\ [][NextCase]_vars

----------------------------------------------------------------------------
(* The claims *)

\* C1: whatever an operation did, every command it ran and every secret it
\* fetched was on behalf of a setting of sensitive_config_values; ret holds
\* what the last operation (get, has_option, getboolean, getint, getfloat,
\* getsection, as_dict, a load or the reload of a snapshot) did
C1_OnlySensitiveIndirection ==
  \A call \in ret.eff.cmds \cup ret.eff.secrets :
    <<call[1], call[2]>> \in sensitive_config_values

\* C1: core.executor is not sensitive; get resolved it to its default while the
\* environment held AIRFLOW__CORE__EXECUTOR_CMD and the file held executor_cmd
\* and executor_secret, and ran nothing
C1_Witness ==
  /\ ret.op = "get" /\ ret.section = "core" /\ ret.key = "executor"
  /\ <<"core", "executor">> \notin sensitive_config_values
  /\ "AIRFLOW__CORE__EXECUTOR_CMD" \in DOMAIN environ
  /\ parser_has_option(sections, "core", "executor_cmd")
  /\ parser_has_option(sections, "core", "executor_secret")
  /\ ret.exc = "" /\ ret.val = Str("SequentialExecutor")
  /\ ret.eff.cmds = {} /\ ret.eff.secrets = {}

\* the environment holds a command or secret hint the resolver follows for
\* (section, key)
EnvHint(env, section, key) ==
  /\ <<section, key>> \in sensitive_config_values
  /\ \/ env_var_name(section, key) \o "_CMD" \in DOMAIN env
     \/ env_var_name(section, key) \o "_SECRET" \in DOMAIN env

\* the file-backed store holds a command or secret hint the resolver follows
\* for (section, key)
FileHint(secs, section, key) ==
  /\ <<section, key>> \in sensitive_config_values
  /\ \/ parser_has_option(secs, section, key \o "_cmd")
     \/ parser_has_option(secs, section, key \o "_secret")

\* the environment holds something for (section, key)
InEnv(env, section, key) ==
  env_var_name(section, key) \in DOMAIN env \/ EnvHint(env, section, key)

\* the file-backed store holds something for (section, key)
InFile(secs, section, key) ==
  parser_has_option(secs, section, key) \/ FileHint(secs, section, key)

\* the old name of (section, key) has something in the environment / in the file
OldInEnv(env, section, key) ==
  DeprecatedName(section, key) # "" /\ InEnv(env, section, DeprecatedName(section, key))

OldInFile(secs, section, key) ==
  DeprecatedName(section, key) # "" /\ InFile(secs, section, DeprecatedName(section, key))

LoadStep == nloads' = nloads + 1 /\ ret'.op \in {"read", "read_dict"}

\* the file-backed store of a load step when its validation pass starts
Merged == parser_read_dict(sections, ret'.loaded)

\* C4, as claimed: a load whose validation pass finds the old literal in the
\* file-backed store leaves the replacement there and the variable unset,
\* whatever the environment and the default table hold
C4_MigratesAlways ==
  [][\A i \in 1..Len(DeprecatedValueEntries) :
       LET section == DeprecatedValueEntries[i][1]
           key == DeprecatedValueEntries[i][2]
       IN (/\ LoadStep
           /\ parser_has_option(Merged, section, key)
           /\ Merged[section][key] = DeprecatedValueEntries[i][3])
          => /\ parser_has_option(sections', section, key)
             /\ sections'[section][key] = DeprecatedValueEntries[i][4]
             /\ env_var_name(section, key) \notin DOMAIN environ']_vars

\* C4, amended: a load whose validation pass finds the old literal in the
\* file-backed store rewrites it and unsets the variable when the dependency
\* check passes and the variable is unset or expands to the old literal; when
\* the dependency check fails, or the variable expands to something else, the
\* load rewrites nothing and leaves the environment as it was
C4_MigratesResolved ==
  [][\A i \in 1..Len(DeprecatedValueEntries) :
       LET section == DeprecatedValueEntries[i][1]
           key == DeprecatedValueEntries[i][2]
           old == DeprecatedValueEntries[i][3]
           env_var == env_var_name(section, key)
           passes == ~Raised(validate_config_dependencies(environ, Merged, defaults))
           resolves == \/ env_var \notin DOMAIN environ
                       \/ expand_env_var(environ, Str(environ[env_var])) = Str(old)
       IN (/\ LoadStep
           /\ parser_has_option(Merged, section, key)
           /\ Merged[section][key] = old)
          => /\ (passes /\ resolves)
                  => /\ sections'[section][key] = DeprecatedValueEntries[i][4]
                     /\ env_var \notin DOMAIN environ'
                     /\ ret'.exc = ""
                     /\ ret'.eff.warns = << <<"FutureWarning", section, key, old>> >>
             /\ ~(passes /\ resolves)
                  => /\ sections' = Merged
                     /\ environ' = environ
                     /\ ret'.eff.warns = << >>]_vars

\* C4: a load found BashTaskRunner in the file, rewrote it and said so
C4_Witness ==
  /\ ret.op \in {"read", "read_dict"}
  /\ parser_has_option(ret.loaded, "core", "task_runner")
  /\ ret.loaded["core"]["task_runner"] = "BashTaskRunner"
  /\ ret.exc = ""
  /\ ret.eff.warns = << <<"FutureWarning", "core", "task_runner", "BashTaskRunner">> >>
  /\ sections["core"]["task_runner"] = "StandardTaskRunner"
  /\ "AIRFLOW__CORE__TASK_RUNNER" \notin DOMAIN environ

\* the rules of the dependency check, on what the resolver resolves
SqliteRuleViolated(env, secs, defs) ==
  /\ get(env, secs, defs, "core", "executor", NoKw).val.s
       \notin {"DebugExecutor", "SequentialExecutor"}
  /\ Contains(get(env, secs, defs, "core", "sql_alchemy_conn", NoKw).val.s, "sqlite")

OwnerModeRuleViolated(env, secs, defs) ==
  /\ getboolean(env, secs, defs, "webserver", "authenticate", NoKw).val = Bool(TRUE)
  /\ get(env, secs, defs, "webserver", "owner_mode", NoKw).val.s \notin {"user", "ldapgroup"}

LdapGroupRuleViolated(env, secs, defs) ==
  /\ getboolean(env, secs, defs, "webserver", "authenticate", NoKw).val = Bool(TRUE)
  /\ StrLower(get(env, secs, defs, "webserver", "owner_mode", NoKw).val.s) = "ldapgroup"
  /\ get(env, secs, defs, "webserver", "auth_backend", NoKw).val.s
       # "airflow.contrib.auth.backends.ldap_auth"

StartMethodRuleViolated(env, secs, defs) ==
  /\ has_option(env, secs, defs, "core", "mp_start_method").val = Bool(TRUE)
  /\ get(env, secs, defs, "core", "mp_start_method", NoKw).val.s \notin StartMethods

\* what the dependency check raises
DependencyErrors ==
  { "AirflowConfigException: cannot use sqlite",
    "AirflowConfigException: owner_mode should be user or ldapgroup",
    "AirflowConfigException: ldapgroup without Ldap backend",
    "AirflowConfigException: mp_start_method should not be" }

\* C5: a load fails with the error of the first rule, in the order sqlite,
\* owner_mode, ldapgroup, mp_start_method, that its configuration violates: with
\* the sqlite error whenever the sqlite rule is violated, whatever later rule is
\* violated too, and with none of these errors when no rule is violated
C5_FirstViolatedRule ==
  [][LoadStep =>
       LET sqlite == SqliteRuleViolated(environ, Merged, defaults)
           owner == OwnerModeRuleViolated(environ, Merged, defaults)
           ldap == LdapGroupRuleViolated(environ, Merged, defaults)
           start == StartMethodRuleViolated(environ, Merged, defaults)
       IN /\ sqlite => ret'.exc = "AirflowConfigException: cannot use sqlite"
          /\ (~sqlite /\ owner)
               => ret'.exc = "AirflowConfigException: owner_mode should be user or ldapgroup"
          /\ (~sqlite /\ ~owner /\ ldap)
               => ret'.exc = "AirflowConfigException: ldapgroup without Ldap backend"
          /\ (~sqlite /\ ~owner /\ ~ldap /\ start)
               => ret'.exc = "AirflowConfigException: mp_start_method should not be"
          /\ (~sqlite /\ ~owner /\ ~ldap /\ ~start) => ret'.exc \notin DependencyErrors]_vars

\* C5: a load failed with the sqlite error on a configuration (the one it left,
\* a failed check changing nothing) that violates the owner_mode rule and the
\* mp_start_method rule too
C5_Witness ==
  /\ ret.op \in {"read", "read_dict"}
  /\ ret.exc = "AirflowConfigException: cannot use sqlite"
  /\ SqliteRuleViolated(environ, sections, defaults)
  /\ OwnerModeRuleViolated(environ, sections, defaults)
  /\ StartMethodRuleViolated(environ, sections, defaults)

\* a key that is a command or secret hint
HintKey(key) == EndsWith(key, "_cmd") \/ EndsWith(key, "_secret")

\* C6: after the snapshot as_dict(display_source=False, display_sensitive=True)
\* of a resolver was loaded into a new resolver with the same default table in
\* the same environment, get succeeds and returns the same value for every
\* setting (the hints themselves left aside) for which it succeeded before
C6_RoundTrip ==
  (ret.op = "round_trip" /\ ret.exc = "")
  => \A id \in DOMAIN ret.before :
       (~HintKey(id[2]) /\ ret.before[id].exc = "")
       => /\ get(environ, sections, defaults, id[1], id[2], NoKw).exc = ""
          /\ get(environ, sections, defaults, id[1], id[2], NoKw).val = ret.before[id].val

\* C6: celery.broker_url resolved to its file value before the export and
\* resolves to the output of broker_url_cmd after the reload
C6_Witness ==
  /\ ret.op = "round_trip" /\ ret.exc = ""
  /\ <<"celery", "broker_url">> \in DOMAIN ret.before
  /\ ret.before[<<"celery", "broker_url">>].val = Str("amqp://file")
  /\ get(environ, sections, defaults, "celery", "broker_url", NoKw).val = Str("amqp://cmd")

\* what is left of a string for getboolean: lower case, blanks trimmed, cut at
\* the first '#', trimmed again
BooleanText(str) ==
  LET low == Strip(StrLower(str))
      cut == Find(low, "#", 1)
  IN IF cut = 0 THEN low ELSE Strip(SubSeq(low, 1, cut - 1))

\* C7: getboolean of a setting stored as str returns True exactly when
\* BooleanText(str) is t, true or 1, False exactly when it is f, false or 0, and
\* raises the value error for every other string; so "True", "1" and
\* "t  # comment" give True and "maybe" raises
C7_GetBooleanTotal ==
  ret.op = "getboolean"
  => LET str == sections[ret.section][ret.key]
         text == BooleanText(str)
     IN /\ (ret.exc = "" /\ ret.val = Bool(TRUE)) <=> text \in {"t", "true", "1"}
        /\ (ret.exc = "" /\ ret.val = Bool(FALSE)) <=> text \in {"f", "false", "0"}
        /\ ret.exc = "ValueError: not a boolean"
             <=> text \notin {"t", "true", "1", "f", "false", "0"}
        /\ str \in {"True", "1", "t  # comment"} => ret.val = Bool(TRUE)
        /\ str = "maybe" => ret.exc = "ValueError: not a boolean"

\* C7: getboolean returned True for "t  # comment"
C7_Witness ==
  /\ ret.op = "getboolean"
  /\ sections["webserver"]["authenticate"] = "t  # comment"
  /\ ret.exc = "" /\ ret.val = Bool(TRUE)

\* the places a value of (section, key) can come from, each giving the value
\* get would take from it or None: the variable, the command and the secret the
\* environment names, the file value, the command and the secret the file
\* names, the default (commands succeed in SpecResolve)
FromEnvVar(section, key) ==
  IF key # "" /\ env_var_name(section, key) \in DOMAIN environ
  THEN expand_env_var(environ, Str(environ[env_var_name(section, key)]))
  ELSE None

FromEnvCmd(section, key) ==
  IF <<section, key>> \in sensitive_config_values
     /\ env_var_name(section, key) \o "_CMD" \in DOMAIN environ
  THEN Str(Programs[environ[env_var_name(section, key) \o "_CMD"]].out)
  ELSE None

FromEnvSecret(section, key) ==
  IF <<section, key>> \in sensitive_config_values
     /\ env_var_name(section, key) \o "_SECRET" \in DOMAIN environ
  THEN SecretStore[environ[env_var_name(section, key) \o "_SECRET"]]
  ELSE None

FromFile(section, key) ==
  IF key # "" /\ parser_has_option(sections, section, key)
  THEN expand_env_var(environ, Str(sections[section][key]))
  ELSE None

FromFileCmd(section, key) ==
  IF <<section, key>> \in sensitive_config_values
     /\ parser_has_option(sections, section, key \o "_cmd")
     /\ Programs[sections[section][key \o "_cmd"]].out # ""
  THEN Str(Programs[sections[section][key \o "_cmd"]].out)
  ELSE None

FromFileSecret(section, key) ==
  IF <<section, key>> \in sensitive_config_values
     /\ parser_has_option(sections, section, key \o "_secret")
     /\ Truthy(SecretStore[sections[section][key \o "_secret"]])
  THEN SecretStore[sections[section][key \o "_secret"]]
  ELSE None

FromDefault(section, key) ==
  IF defaults_has_option(defaults, section, key)
  THEN expand_env_var(environ, Str(defaults[section][key]))
  ELSE None

\* the first value of a sequence of places, None when there is none
RECURSIVE FirstValue(_)
FirstValue(places) ==
  IF places = << >> THEN None
  ELSE IF Head(places) # None THEN Head(places)
  ELSE FirstValue(Tail(places))

\* the order of C8 as claimed: tier by tier, the old name right after the new
\* one in each tier
ClaimedOrder(section, key, old) ==
  << FromEnvVar(section, key), FromEnvVar(section, old),
     FromEnvCmd(section, key), FromEnvCmd(section, old),
     FromEnvSecret(section, key), FromEnvSecret(section, old),
     FromFile(section, key), FromFile(section, old),
     FromFileCmd(section, key), FromFileCmd(section, old),
     FromFileSecret(section, key), FromFileSecret(section, old),
     FromDefault(section, key) >>

\* the order of C8 as amended: the variable, the command and the secret of the
\* new name in the environment, then those of the old name
AmendedOrder(section, key, old) ==
  << FromEnvVar(section, key), FromEnvCmd(section, key), FromEnvSecret(section, key),
     FromEnvVar(section, old), FromEnvCmd(section, old), FromEnvSecret(section, old),
     FromFile(section, key), FromFile(section, old),
     FromFileCmd(section, key), FromFileCmd(section, old),
     FromFileSecret(section, key), FromFileSecret(section, old),
     FromDefault(section, key) >>

\* get(section, key) answered with the first value of the places, or failed
\* with not-found when no place has one
AnsweredFrom(places) ==
  IF FirstValue(places) = None
  THEN ret.exc = "AirflowConfigException: not found"
  ELSE ret.exc = "" /\ ret.val = FirstValue(places)

OldDefaultOnly(section, key, old) ==
  /\ ~InEnv(environ, section, key) /\ ~InFile(sections, section, key)
  /\ ~defaults_has_option(defaults, section, key)
  /\ ~InEnv(environ, section, old) /\ ~InFile(sections, section, old)
  /\ defaults_has_option(defaults, section, old)

OldEnvVarOnly(section, key, old) ==
  /\ ~InEnv(environ, section, key) /\ ~InFile(sections, section, key)
  /\ ~defaults_has_option(defaults, section, key)
  /\ env_var_name(section, old) \in DOMAIN environ
  /\ ~InFile(sections, section, old) /\ ~defaults_has_option(defaults, section, old)

OldFileValueOnly(section, key, old) ==
  /\ ~InEnv(environ, section, key) /\ ~InFile(sections, section, key)
  /\ ~defaults_has_option(defaults, section, key)
  /\ ~InEnv(environ, section, old)
  /\ parser_has_option(sections, section, old)
  /\ ~defaults_has_option(defaults, section, old)

\* get answered with the value and one deprecation warning for (section, key)
AnsweredDeprecated(section, key, old, value) ==
  /\ ret.exc = "" /\ ret.val = expand_env_var(environ, Str(value))
  /\ ret.eff.warns = << <<"DeprecationWarning", section, key, old>> >>

C10_FlagFollowsLastLoad ==
  /\ nloads = 0 => ~is_validated
  /\ (ret.op \in {"read", "read_dict"} /\ ret.exc = "") => is_validated
  /\ (ret.op \in {"read", "read_dict"} /\ ret.exc \in DependencyErrors) => ~is_validated

\* C10: a load failed its dependency check and is_validated is true, from an
\* earlier load
C10_Witness ==
  /\ ret.op \in {"read", "read_dict"}
  /\ ret.exc \in DependencyErrors
  /\ is_validated

\* rule (c) as C11 states it: owner_mode is ldapgroup and auth_backend is not
\* the ldap backend, whatever authenticate is
LdapGroupSelectedWithoutBackend(env, secs, defs) ==
  /\ get(env, secs, defs, "webserver", "owner_mode", NoKw).val.s = "ldapgroup"
  /\ get(env, secs, defs, "webserver", "auth_backend", NoKw).val.s
       # "airflow.contrib.auth.backends.ldap_auth"

RulesReadable(env, secs, defs) ==
  /\ ~Raised(get(env, secs, defs, "core", "executor", NoKw))
  /\ ~Raised(get(env, secs, defs, "core", "sql_alchemy_conn", NoKw))
  /\ ~Raised(getboolean(env, secs, defs, "webserver", "authenticate", NoKw))
  /\ ~Raised(get(env, secs, defs, "webserver", "owner_mode", NoKw))
  /\ ~Raised(get(env, secs, defs, "webserver", "auth_backend", NoKw))

NoTierYields(section, key) ==
  FirstValue(AmendedOrder(section, key, DeprecatedName(section, key))) = None

\* no tier yields a value for the key or for its old name, the default tier
\* included
NoTierYieldsEitherName(section, key) ==
  /\ NoTierYields(section, key)
  /\ FromDefault(section, DeprecatedName(section, key)) = None

EnvLayered(section, key) == env_var_name(section, key) \in DOMAIN environ

CmdLayered(section, key) == FromFileCmd(section, key) # None

SecretLayered(section, key) == FromFileSecret(section, key) # None

\* as_dict(display_sensitive=False) returned a snapshot
MaskedSnapshot == ret.op = "as_dict" /\ ret.key = "" /\ ret.exc = ""

ClearSnapshot == ret.op = "as_dict" /\ ret.key = "display_sensitive"

\* the key is the hint whose result as_dict layered in
PairedHint(section, key) ==
  \E id \in sensitive_config_values :
    /\ id[1] = section
    /\ \/ key = id[2] \o "_cmd" /\ CmdLayered(section, id[2])
       \/ key = id[2] \o "_secret" /\ SecretLayered(section, id[2])

\* the value and the source of the last layer that has (section, key), in the
\* order default table, file-backed table, variables, commands, secrets
LastLayer(section, key) ==
  IF SecretLayered(section, key) THEN <<FromFileSecret(section, key), "secret">>
  ELSE IF CmdLayered(section, key) THEN <<FromFileCmd(section, key), "cmd">>
  ELSE IF EnvLayered(section, key)
  THEN <<expand_env_var(environ, Str(environ[env_var_name(section, key)])), "env var">>
  ELSE IF parser_has_option(sections, section, key)
  THEN <<Str(sections[section][key]), "airflow.cfg">>
  ELSE IF parser_has_option(defaults, section, key)
  THEN <<Str(defaults[section][key]), "default">>
  ELSE <<None, "">>

\* C14: as_dict returns (the removal of a paired hint never fails, and no
\* command of SpecExport exits with an error); every entry
\* of the snapshot is the value, and with display_source the source, of the
\* last layer that has it in the order default table, file-backed table,
\* variables, command results, secret results; every setting a layer has is in
\* the snapshot, but the key_cmd and key_secret hints whose result was layered
\* in, which are absent
C14_LayersInOrder ==
  ClearSnapshot
  => /\ ret.exc = ""
     /\ \A section \in DOMAIN ret.out : \A key \in DOMAIN ret.out[section] :
          /\ ret.out[section][key].val = LastLayer(section, key)[1]
          /\ ret.out[section][key].source
               = (IF ret.section = "display_source" THEN LastLayer(section, key)[2] ELSE "")
          /\ ~PairedHint(section, key)
     /\ \A section \in DOMAIN sections \cup DOMAIN defaults :
          \A key \in (IF section \in DOMAIN sections THEN DOMAIN sections[section] ELSE {})
                    \cup (IF section \in DOMAIN defaults THEN DOMAIN defaults[section] ELSE {}) :
            PairedHint(section, key) \/ key \in DOMAIN ret.out[section]
     /\ \A id \in sensitive_config_values :
          (CmdLayered(id[1], id[2]) \/ SecretLayered(id[1], id[2]))
          => id[2] \in DOMAIN ret.out[id[1]]
     /\ \A n \in AirflowVars(environ) :
          \/ \E section \in DOMAIN ret.out : \E key \in DOMAIN ret.out[section] :
               env_var_name(section, key) = n
          \/ \E section \in DOMAIN sections : \E key \in DOMAIN sections[section] :
               env_var_name(section, key) = n /\ PairedHint(section, key)

\* C14: a snapshot with sources in which the secret result lies over the
\* command result and the variable of celery.broker_url, both hints gone
C14_Witness ==
  /\ ClearSnapshot /\ ret.section = "display_source" /\ ret.exc = ""
  /\ EnvLayered("celery", "broker_url")
  /\ CmdLayered("celery", "broker_url")
  /\ SecretLayered("celery", "broker_url")
  /\ ret.out["celery"]["broker_url"] = Entry(Str("amqp://secret"), "secret", TRUE)
  /\ "broker_url_cmd" \notin DOMAIN ret.out["celery"]
  /\ "broker_url_secret" \notin DOMAIN ret.out["celery"]

\* the values a table holds under a section and a key that equal (section,
\* key) when case is ignored
StoredIgnoringCase(store, section, key) ==
  UNION { {store[s][k] : k \in {y \in DOMAIN store[s] : StrLower(y) = StrLower(key)}} :
          s \in {x \in DOMAIN store : StrLower(x) = StrLower(section)} }

\* C15: whenever the file-backed table, or else the default table, holds an
\* entry under a section and key that equal the requested ones when case is
\* ignored, get succeeds and returns the value of such an entry (no variable
\* of SpecCase names a setting)
C15_FoundIgnoringCase ==
  ret.op = "get"
  => /\ StoredIgnoringCase(sections, ret.section, ret.key) # {}
          => /\ ret.exc = ""
             /\ ret.val.s \in StoredIgnoringCase(sections, ret.section, ret.key)
     /\ (/\ StoredIgnoringCase(sections, ret.section, ret.key) = {}
         /\ StoredIgnoringCase(defaults, ret.section, ret.key) # {})
          => /\ ret.exc = ""
             /\ ret.val.s \in StoredIgnoringCase(defaults, ret.section, ret.key)

\* C15: get(smtp, smtp_host) failed with not-found on a store that holds
\* SMTP_Host in section smtp
C15_Witness ==
  /\ ret.op = "get" /\ StrLower(ret.section) = "smtp" /\ StrLower(ret.key) = "smtp_host"
  /\ parser_has_option(sections, "smtp", "SMTP_Host")
  /\ ret.exc = "AirflowConfigException: not found"

\* the keys a table has in a section
KeysOf(store, section) == IF section \in DOMAIN store THEN DOMAIN store[section] ELSE {}

\* C16: getsection(section) returns None exactly when neither the file-backed
\* table nor the default table has the section, and for a section that one of
\* them has, the file-backed table alone included, a dictionary with that
\* section's keys; write() succeeds
C16_SectionOfEitherTable ==
  /\ ret.op = "getsection"
       => /\ (ret.exc = "" /\ ret.val = None)
               <=> (ret.section \notin DOMAIN sections /\ ret.section \notin DOMAIN defaults)
          /\ (ret.section \in DOMAIN sections \/ ret.section \in DOMAIN defaults)
               => /\ ret.exc = "" /\ ret.val = Str("dict")
                  /\ KeysOf(sections, ret.section) \cup KeysOf(defaults, ret.section)
                       \subseteq DOMAIN ret.out
  /\ ret.op = "write" => ret.exc = ""

\* C16: getsection(smtp) raised KeyError, the file-backed table alone having
\* the section
C16_Witness ==
  /\ ret.op = "getsection" /\ ret.section = "smtp"
  /\ "smtp" \in DOMAIN sections /\ "smtp" \notin DOMAIN defaults
  /\ ret.exc = "KeyError"

\* C17: a load that fails its dependency check leaves in the file-backed store
\* every value it parsed, and the store as the merge left it; get then returns
\* those values (for a setting no variable overrides); no deprecated value is
\* rewritten or announced and the environment is as it was
C17_FailedLoadKeepsValues ==
  [][(LoadStep /\ ret'.exc \in DependencyErrors)
     => /\ \A section \in DOMAIN ret'.loaded : \A key \in DOMAIN ret'.loaded[section] :
             /\ parser_has_option(sections', section, key)
             /\ sections'[section][key] = ret'.loaded[section][key]
             /\ (~InEnv(environ', section, key) /\ ~OldInEnv(environ', section, key))
                  => get(environ', sections', defaults, section, key, NoKw).val
                       = expand_env_var(environ', Str(ret'.loaded[section][key]))
        /\ sections' = Merged
        /\ environ' = environ
        /\ ret'.eff.warns = << >>]_vars

\* C17: a load failed its dependency check; the executor it brought is what get
\* returns, and the old task_runner literal in the environment, which a
\* successful load would have migrated, is still there
C17_Witness ==
  /\ ret.op \in {"read", "read_dict"}
  /\ ret.exc \in DependencyErrors
  /\ parser_has_option(ret.loaded, "core", "executor")
  /\ "AIRFLOW__CORE__EXECUTOR" \notin DOMAIN environ
  /\ get(environ, sections, defaults, "core", "executor", NoKw).val
       = Str(ret.loaded["core"]["executor"])
  /\ "AIRFLOW__CORE__TASK_RUNNER" \in DOMAIN environ
  /\ environ["AIRFLOW__CORE__TASK_RUNNER"] = "BashTaskRunner"

====
